---- MODULE Spec2Model ----
(***************************************************************************)
(* A model of the HTTP span exporter (exporter.go, convert.go).            *)
(*                                                                         *)
(* One Exporter value is shared by a set of host-pipeline workers.  Each   *)
(* worker calls ExportSpans or Shutdown; a call is a sequence of steps,    *)
(* one per statement group of the Go method, so that calls interleave at   *)
(* every point where goroutines can.  The sync.RWMutex guarding the stop   *)
(* flag is modelled with Go's discipline: a writer that has called Lock    *)
(* holds back readers that arrive later, and Unlock admits the readers     *)
(* that queued up behind it.                                               *)
(***************************************************************************)
EXTENDS Integers, Sequences, FiniteSets, TLC

\* ------------------------------------------------------------------ bounds
\* Calls the host pipeline makes in one behaviour, over all workers.
MaxCalls == 3
\* Longest span batch handed to ExportSpans.
MaxSpans == 1

\* The host pipeline's goroutines that call into the exporter.
Workers == {"w1", "w2"}

NoWorker == "none"

\* ------------------------------------------------------------- span batches
\* Longest span batch handed to convertSpansToHttp on its own.
MaxConvSpans == 2
\* Longest attribute list handed to attributesToMap on its own.
MaxAttrs == 2

\* attribute.KeyValue values: the value carries its type and its payload.
\* The float64 payload "NaN" is the one encoding/json refuses to encode.
KV(k, v) == [Key |-> k, Value |-> v]
StringValue(x) == [Type |-> "STRING", AsString |-> x]
Int64Value(n) == [Type |-> "INT64", AsInt64 |-> n]
Float64Value(f) == [Type |-> "FLOAT64", AsFloat64 |-> f]

\* The attributes the host attaches; "method" occurs twice, with two values.
AttrPool ==
    { KV("method", StringValue("GET")), KV("method", StringValue("POST")),
      KV("retries", Int64Value(7)), KV("ratio", Float64Value("NaN")) }

\* time.Time as seconds and nanoseconds since the Unix epoch.
Time(sec, nsec) == [sec |-> sec, nsec |-> nsec]

\* sdktrace.ReadOnlySpan snapshots, by what their accessors return: the
\* identifiers as byte strings (two bytes stand for the sixteen and eight of a
\* real trace and span id), SpanKind and Status().Code as their integer enum
\* values.
SpanPlain ==
    [ traceID |-> <<1, 171>>, spanID |-> <<2, 16>>, parentSpanID |-> <<0, 0>>,
      spanKind |-> 2, name |-> "plain",
      statusCode |-> 0, statusDescription |-> "",
      startTime |-> Time(1, 5), endTime |-> Time(1, 9),
      libraryName |-> "lib", libraryVersion |-> "v1",
      resource |-> <<KV("service", StringValue("shop"))>>,
      events |-> <<[Time |-> Time(1, 7), Name |-> "retry",
                    Attributes |-> <<KV("retries", Int64Value(7))>>]>>,
      attributes |-> <<KV("method", StringValue("GET"))>>,
      links |-> <<[TraceID |-> <<9, 9>>, SpanID |-> <<3, 3>>, Attributes |-> <<>>]>> ]

SpanNaN ==
    [ traceID |-> <<1, 171>>, spanID |-> <<2, 17>>, parentSpanID |-> <<2, 16>>,
      spanKind |-> 1, name |-> "nanAttr",
      statusCode |-> 1, statusDescription |-> "boom",
      startTime |-> Time(1, 6), endTime |-> Time(1, 8),
      libraryName |-> "lib", libraryVersion |-> "v1",
      resource |-> <<>>, events |-> <<>>,
      attributes |-> <<KV("ratio", Float64Value("NaN"))>>,
      links |-> <<>> ]

\* A span with nothing attached: no attributes, resource, events or links.
SpanBare ==
    [ traceID |-> <<1, 172>>, spanID |-> <<2, 18>>, parentSpanID |-> <<0, 0>>,
      spanKind |-> 0, name |-> "bare",
      statusCode |-> 2, statusDescription |-> "",
      startTime |-> Time(0, 0), endTime |-> Time(0, 1),
      libraryName |-> "", libraryVersion |-> "",
      resource |-> <<>>, events |-> <<>>, attributes |-> <<>>, links |-> <<>> ]

\* A span whose attribute list repeats a key, with events but no links.
SpanDup ==
    [ traceID |-> <<1, 173>>, spanID |-> <<2, 19>>, parentSpanID |-> <<2, 18>>,
      spanKind |-> 3, name |-> "dup",
      statusCode |-> 0, statusDescription |-> "",
      startTime |-> Time(1, 0), endTime |-> Time(1, 1),
      libraryName |-> "lib", libraryVersion |-> "v2",
      resource |-> <<KV("service", StringValue("shop"))>>,
      events |-> <<[Time |-> Time(1, 1), Name |-> "done", Attributes |-> <<>>]>>,
      attributes |-> <<KV("method", StringValue("GET")), KV("method", StringValue("POST"))>>,
      links |-> <<>> ]

\* The span snapshots the host hands to ExportSpans.
SpanPool == { SpanPlain, SpanNaN }

\* The span snapshots handed to convertSpansToHttp on its own.
ConvSpanPool == SpanPool \cup { SpanBare, SpanDup }

RECURSIVE SeqsUpTo(_, _)
SeqsUpTo(S, n) ==
    IF n = 0 THEN { <<>> }
    ELSE LET shorter == SeqsUpTo(S, n - 1)
         IN  shorter \cup { Append(s, x) : s \in { t \in shorter : Len(t) = n - 1 }, x \in S }

\* A batch is a slice of interface values: it holds its snapshots by
\* reference.  A reference is written as the name of the span it points to.
SpanRefs == { s.name : s \in SpanPool }
snapshots(batch) == [i \in 1..Len(batch) |-> CHOOSE s \in SpanPool : s.name = batch[i]]

Batches == SeqsUpTo(SpanRefs, MaxSpans)
ConvBatches == SeqsUpTo(ConvSpanPool, MaxConvSpans)
AttrSeqs == SeqsUpTo(AttrPool, MaxAttrs)

\* ------------------------------------------------------------------ contexts
\* context.Context as ExportSpans and Shutdown see it: a nil interface value,
\* a live context, or a context whose Done channel is closed, with its Err().
CtxNil == "nil"
CtxLive == "live"
CtxFired == {"canceled", "deadlineExceeded"}
\* ExportSpans never asks a context which error it carries, so one fired kind
\* stands for both there.
ExportContexts == {CtxNil, CtxLive, "canceled"}
ShutdownContexts == {CtxLive} \cup CtxFired

\* ctx.Err() of a fired context.
CtxErr(c) == IF c = "canceled" THEN "context.Canceled" ELSE "context.DeadlineExceeded"

\* ---------------------------------------------------------------- responses
\* Status codes the collector answers with.
StatusCodes == {200, 299, 300, 500}
NoStatus == 0

\* ------------------------------------------------------------------ results
Nil == "nil"
ErrSerialize == "unable to serialize span data"
ErrEmptyBody == "empty span data"
ErrCreateRequest == "failed to create request"
ErrTransport == "request failed"
ErrReadBody == "failed to read response body"
ErrStatus == "failed to send spans to server with status"
NoResult == "pending"

VARIABLES
    stopped,      \* Exporter.stopped
    rwReaders,    \* workers holding stoppedMu for reading
    rwWriter,     \* worker that has called stoppedMu.Lock and not yet Unlock
    rwWaiting,    \* workers blocked in stoppedMu.RLock behind a writer
    pc,           \* each worker's position in its current call
    op,           \* the method each worker is in or last called
    spans,        \* ExportSpans' batch argument
    ctx,          \* the call's context argument
    stoppedLocal, \* ExportSpans' local variable `stopped`
    status,       \* resp.StatusCode once a response has arrived
    ret,          \* the call's return value
    requests,     \* client.Do calls made by the current call
    marshals,     \* json.Marshal calls made by the current call
    afterShutdown,\* the call began after some Shutdown call had returned
    shutdownDone, \* some Shutdown call has returned
    sentLate,     \* the call entered client.Do after some Shutdown call had returned
    firedStage,   \* where the call was when its context fired
    pure,         \* a call of New or of a conversion function: input and result
    calls         \* calls begun so far

vars == <<stopped, rwReaders, rwWriter, rwWaiting, pc, op, spans, ctx,
          stoppedLocal, status, ret, requests, marshals, afterShutdown,
          shutdownDone, sentLate, firedStage, calls, pure>>

lockVars == <<rwReaders, rwWriter, rwWaiting>>
\* What no step inside a call changes: its arguments and bookkeeping, and the
\* record of the stand-alone function calls.
callVars == <<op, spans, afterShutdown, sentLate, firedStage, calls, pure>>

\* Everything but `pure`.
exporterVars == <<stopped, rwReaders, rwWriter, rwWaiting, pc, op, spans, ctx,
                  stoppedLocal, status, ret, requests, marshals, afterShutdown,
                  shutdownDone, sentLate, firedStage, calls>>

\* No stand-alone function call is being looked at.
NoPure == [fn |-> "none"]

\* State after New has returned an exporter: the zero value of `stopped`.
ExporterIdle ==
    /\ stopped = FALSE
    /\ rwReaders = {}
    /\ rwWriter = NoWorker
    /\ rwWaiting = {}
    /\ pc = [w \in Workers |-> "idle"]
    /\ op = [w \in Workers |-> "none"]
    /\ spans = [w \in Workers |-> <<>>]
    /\ ctx = [w \in Workers |-> CtxLive]
    /\ stoppedLocal = [w \in Workers |-> FALSE]
    /\ status = [w \in Workers |-> NoStatus]
    /\ ret = [w \in Workers |-> NoResult]
    /\ requests = [w \in Workers |-> 0]
    /\ marshals = [w \in Workers |-> 0]
    /\ afterShutdown = [w \in Workers |-> FALSE]
    /\ shutdownDone = FALSE
    /\ sentLate = [w \in Workers |-> FALSE]
    /\ firedStage = [w \in Workers |-> "none"]
    /\ calls = 0

Init == ExporterIdle /\ pure = NoPure

\* A call returns value r.
Return(w, r) ==
    /\ pc' = [pc EXCEPT ![w] = "done"]
    /\ ret' = [ret EXCEPT ![w] = r]

Goto(w, label) == pc' = [pc EXCEPT ![w] = label]

\* The host begins a call on worker w: fresh locals.
Begin(w, method, c) ==
    /\ pc[w] \in {"idle", "done"}
    /\ calls < MaxCalls
    /\ calls' = calls + 1
    /\ op' = [op EXCEPT ![w] = method]
    /\ ctx' = [ctx EXCEPT ![w] = c]
    /\ stoppedLocal' = [stoppedLocal EXCEPT ![w] = FALSE]
    /\ status' = [status EXCEPT ![w] = NoStatus]
    /\ ret' = [ret EXCEPT ![w] = NoResult]
    /\ requests' = [requests EXCEPT ![w] = 0]
    /\ marshals' = [marshals EXCEPT ![w] = 0]
    /\ afterShutdown' = [afterShutdown EXCEPT ![w] = shutdownDone]
    /\ sentLate' = [sentLate EXCEPT ![w] = FALSE]
    /\ firedStage' = [firedStage EXCEPT ![w] = IF c \in CtxFired THEN "early" ELSE "none"]
    /\ UNCHANGED <<stopped, lockVars, shutdownDone, pure>>

\* ------------------------------------------------------------- conversion
\* Go maps and slices: a nil one and an empty one differ.
makeMap == [isNil |-> FALSE, kv |-> <<>>]
NilSlice == [isNil |-> TRUE, elems |-> <<>>]
EmptySlice == [isNil |-> FALSE, elems |-> <<>>]

\* m[k] = v, keeping the entry a key already has.
mapSetIfAbsent(m, k, v) ==
    [isNil |-> FALSE,
     kv |-> [x \in (DOMAIN m.kv) \cup {k} |-> IF x \in DOMAIN m.kv THEN m.kv[x] ELSE v]]

\* m[k] = v
mapSet(m, k, v) ==
    [isNil |-> FALSE,
     kv |-> [x \in (DOMAIN m.kv) \cup {k} |-> IF x = k THEN v ELSE m.kv[x]]]

\* A slice with x put in front.
goPrepend(sl, x) == [isNil |-> FALSE, elems |-> <<x>> \o sl.elems]

\* append(sl, x)
goAppend(sl, x) == [isNil |-> FALSE, elems |-> Append(sl.elems, x)]

\* attribute.Value.AsInterface(): the payload as a Go value of its own type.
asInterface(v) ==
    CASE v.Type = "STRING" -> [goType |-> "string", s |-> v.AsString]
      [] v.Type = "INT64" -> [goType |-> "int64", n |-> v.AsInt64]
      [] v.Type = "FLOAT64" -> [goType |-> "float64", f |-> v.AsFloat64]

HexDigits ==
    <<"0", "1", "2", "3", "4", "5", "6", "7", "8", "9", "a", "b", "c", "d", "e", "f">>

hexByte(b) == HexDigits[(b \div 16) + 1] \o HexDigits[(b % 16) + 1]

\* TraceID.String(), SpanID.String(): lower-case hex of the bytes.
RECURSIVE idString(_)
idString(id) == IF id = <<>> THEN "" ELSE hexByte(Head(id)) \o idString(Tail(id))

\* time.Time.UnixNano()
unixNano(t) == t.sec * 1000000000 + t.nsec

\* codes.Code.String()
codeString(c) ==
    CASE c = 0 -> "Unset"
      [] c = 1 -> "Error"
      [] c = 2 -> "Ok"

\* attributesToMap: a fresh map, then one assignment per attribute in order.
RECURSIVE attributesLoop(_, _, _)
attributesLoop(attrs, attributes, i) ==
    IF i > Len(attributes) THEN attrs
    ELSE attributesLoop(mapSet(attrs, attributes[i].Key, asInterface(attributes[i].Value)),
                        attributes, i + 1)

attributesToMap(attributes) == attributesLoop(makeMap, attributes, 1)

\* linksToSlice: a nil slice, then one append per link.
RECURSIVE linksLoop(_, _, _)
linksLoop(l, links, i) ==
    IF i > Len(links) THEN l
    ELSE linksLoop(goAppend(l, [TraceID |-> idString(links[i].TraceID),
                                SpanID |-> idString(links[i].SpanID),
                                Attrs |-> attributesToMap(links[i].Attributes)]),
                   links, i + 1)

linksToSlice(links) == linksLoop(NilSlice, links, 1)

\* eventsToSlice: a nil slice, then one append per event.
RECURSIVE eventsLoop(_, _, _)
eventsLoop(e, events, i) ==
    IF i > Len(events) THEN e
    ELSE eventsLoop(goAppend(e, [Ts |-> unixNano(events[i].Time),
                                 Name |-> events[i].Name,
                                 Attrs |-> attributesToMap(events[i].Attributes)]),
                    events, i + 1)

eventsToSlice(events) == eventsLoop(NilSlice, events, 1)

\* The SpanData built in one round of convertSpansToHttp's loop.  The three
\* dropped counts are never assigned and keep their zero value.
httpSpan(span) ==
    [ TraceID |-> idString(span.traceID),
      SpanID |-> idString(span.spanID),
      ParentSpanID |-> idString(span.parentSpanID),
      SpanKind |-> span.spanKind,
      Name |-> span.name,
      StatusMessage |-> span.statusDescription,
      StatusCode |-> codeString(span.statusCode),
      StartTime |-> unixNano(span.startTime),
      EndTime |-> unixNano(span.endTime),
      InstrumentationLibraryName |-> span.libraryName,
      InstrumentationLibraryVersion |-> span.libraryVersion,
      Resource |-> attributesToMap(span.resource),
      MessageEvents |-> eventsToSlice(span.events),
      Attrs |-> attributesToMap(span.attributes),
      Links |-> linksToSlice(span.links),
      DroppedAttributeCount |-> 0,
      DroppedLinkCount |-> 0,
      DroppedMessageEventCount |-> 0 ]

\* convertSpansToHttp: an empty non-nil slice, then one append per span.
RECURSIVE convertLoop(_, _, _)
convertLoop(httpSpans, spanList, i) ==
    IF i > Len(spanList) THEN httpSpans
    ELSE convertLoop(goAppend(httpSpans, httpSpan(spanList[i])), spanList, i + 1)

convertSpansToHttp(spanList) == convertLoop(EmptySlice, spanList, 1)

\* ------------------------------------------------------------ encoding/json
\* A struct field as encoding/json sees it: Go name, wire name from the tag,
\* the omitempty option, and the field's Go type.
Field(go, json, omitempty, type) ==
    [go |-> go, json |-> json, omitempty |-> omitempty, type |-> type]

SpanDataFields ==
    << Field("TraceID", "traceId", FALSE, "string"),
       Field("SpanID", "spanId", FALSE, "string"),
       Field("ParentSpanID", "parentSpanId", FALSE, "string"),
       Field("Name", "name", FALSE, "string"),
       Field("StartTime", "startTime", FALSE, "int"),
       Field("EndTime", "endTime", FALSE, "int"),
       Field("Attrs", "attrs", FALSE, "map"),
       Field("DroppedAttributeCount", "droppedAttributesCount", FALSE, "int"),
       Field("Links", "links", TRUE, "[]Link"),
       Field("DroppedLinkCount", "droppedLinkCount", FALSE, "int"),
       Field("StatusCode", "statusCode", FALSE, "string"),
       Field("MessageEvents", "messageEvents", TRUE, "[]Event"),
       Field("DroppedMessageEventCount", "droppedMessageEventCount", FALSE, "int"),
       Field("SpanKind", "spanKind", FALSE, "int"),
       Field("StatusMessage", "statusMessage", FALSE, "string"),
       Field("InstrumentationLibraryName", "instrumentationLibraryName", FALSE, "string"),
       Field("InstrumentationLibraryVersion", "instrumentationLibraryVersion", FALSE, "string"),
       Field("Resource", "resource", TRUE, "map") >>

EventFields ==
    << Field("Ts", "ts", FALSE, "int"),
       Field("Name", "name", FALSE, "string"),
       Field("Attrs", "attrs", FALSE, "map") >>

LinkFields ==
    << Field("TraceID", "traceId", FALSE, "string"),
       Field("SpanID", "spanId", FALSE, "string"),
       Field("Attrs", "attrs", FALSE, "map") >>

\* JSON values, by kind.
JsonNull == [t |-> "null"]
JsonUnsupported == [t |-> "unsupported"]
jsonString(x) == [t |-> "string", v |-> x]
jsonNumber(n) == [t |-> "number", v |-> n]

\* An omitempty that drops only nil maps and slices.
isEmptyValueNilOnly(type, v) ==
    CASE type = "string" -> v = ""
      [] type = "int" -> v = 0
      [] type = "map" -> v.isNil
      [] OTHER -> v.isNil

\* encoding/json's isEmptyValue: zero numbers, and strings, maps and slices of
\* length zero.
isEmptyValue(type, v) ==
    CASE type = "string" -> v = ""
      [] type = "int" -> v = 0
      [] type = "map" -> DOMAIN v.kv = {}
      [] OTHER -> Len(v.elems) = 0

\* An interface{} value is encoded by its dynamic type; a NaN float64 is an
\* UnsupportedValueError.
encodeInterface(x) ==
    CASE x.goType = "string" -> jsonString(x.s)
      [] x.goType = "int64" -> jsonNumber(x.n)
      [] x.goType = "float64" -> IF x.f = "NaN" THEN JsonUnsupported ELSE jsonNumber(x.f)

elemFields(type) ==
    CASE type = "[]Link" -> LinkFields
      [] type = "[]Event" -> EventFields
      [] type = "[]SpanData" -> SpanDataFields

\* A value encoded by its static Go type.  A type with no MarshalJSON or
\* MarshalText of its own is encoded by its kind: an integer as a number.
RECURSIVE encodeValue(_, _)
RECURSIVE encodeStruct(_, _)
encodeValue(type, v) ==
    CASE type = "string" -> jsonString(v)
      [] type = "int" -> jsonNumber(v)
      [] type = "map" ->
            IF v.isNil THEN JsonNull
            ELSE [t |-> "object", v |-> [k \in DOMAIN v.kv |-> encodeInterface(v.kv[k])]]
      [] OTHER ->
            IF v.isNil THEN JsonNull
            ELSE [t |-> "array",
                  v |-> [i \in 1..Len(v.elems) |-> encodeStruct(elemFields(type), v.elems[i])]]

\* A struct: one member per field, named by the tag, skipping an omitempty
\* field whose value is empty.
encodeStruct(fields, x) ==
    LET kept == { i \in DOMAIN fields :
                      ~(fields[i].omitempty /\ isEmptyValue(fields[i].type, x[fields[i].go])) }
    IN  [t |-> "object",
         v |-> [n \in { fields[i].json : i \in kept } |->
                   LET i == CHOOSE j \in kept : fields[j].json = n
                   IN  encodeValue(fields[i].type, x[fields[i].go])]]

RECURSIVE unsupported(_)
unsupported(j) ==
    CASE j.t = "unsupported" -> TRUE
      [] j.t \in {"object", "array"} -> \E k \in DOMAIN j.v : unsupported(j.v[k])
      [] OTHER -> FALSE

\* json.Marshal(&httpSpans): an error and no bytes for a value encoding/json
\* cannot encode, otherwise the encoded array.
jsonMarshal(httpSpans) ==
    LET j == encodeValue("[]SpanData", httpSpans)
    IN  IF unsupported(j)
        THEN [err |-> TRUE, body |-> [isNil |-> TRUE, json |-> JsonNull]]
        ELSE [err |-> FALSE, body |-> [isNil |-> FALSE, json |-> j]]

\* exporter.go:114-115  httpSpans := convertSpansToHttp(spans);
\* body, err := json.Marshal(&httpSpans), for each batch the host can pass.
serialized == [b \in Batches |-> jsonMarshal(convertSpansToHttp(snapshots(b)))]

\* ------------------------------------------------------------ construction
defaultURL == "http://localhost:4000/"

\* Collector URLs a caller or the environment can supply, by their syntax: the
\* scheme and the authority as written, and whether net/url rejects the text
\* (a port that is not a number, a missing protocol scheme).
URLs ==
    { [raw |-> "", scheme |-> "", host |-> "", malformed |-> FALSE],
      [raw |-> "http://localhost:4000/", scheme |-> "http", host |-> "localhost:4000",
       malformed |-> FALSE],
      [raw |-> "https://collector.example:4318/v1", scheme |-> "https",
       host |-> "collector.example:4318", malformed |-> FALSE],
      [raw |-> "collector.example/v1", scheme |-> "", host |-> "", malformed |-> FALSE],
      [raw |-> "//collector.example:4318", scheme |-> "", host |-> "collector.example:4318",
       malformed |-> FALSE],
      [raw |-> "http:///v1", scheme |-> "http", host |-> "", malformed |-> FALSE],
      [raw |-> "localhost:4000", scheme |-> "localhost", host |-> "", malformed |-> FALSE],
      [raw |-> "http://collector:port/", scheme |-> "http", host |-> "collector:port",
       malformed |-> TRUE],
      [raw |-> ":4000", scheme |-> "", host |-> "", malformed |-> TRUE] }

RawURLs == { u.raw : u \in URLs }

urlSyntax(rawURL) == CHOOSE u \in URLs : u.raw = rawURL

\* os.LookupEnv(envEndpoint): unset, or set to a value that may be empty.
Environments ==
    { [ok |-> FALSE, v |-> ""] } \cup { [ok |-> TRUE, v |-> raw] : raw \in RawURLs }

\* url.Parse
urlParse(rawURL) ==
    LET u == urlSyntax(rawURL)
    IN  IF u.malformed THEN [err |-> TRUE, Scheme |-> "", Host |-> ""]
        ELSE [err |-> FALSE, Scheme |-> u.scheme, Host |-> u.host]

\* An envOr that takes a variable set to the empty string at its word.
envOrAcceptsEmpty(lookup, defaultValue) ==
    IF lookup.ok THEN lookup.v ELSE defaultValue

\* envOr(envEndpoint, defaultValue), given what os.LookupEnv returns.
envOr(lookup, defaultValue) ==
    IF lookup.ok /\ lookup.v # "" THEN lookup.v ELSE defaultValue

NilExporter == [isNil |-> TRUE, url |-> "", stopped |-> FALSE]
ErrInvalidURL == "invalid collector URL"
ErrNoSchemeOrHost == "invalid collector URL: no scheme or host"

\* New(collectorURL) in an environment where LookupEnv(envEndpoint) gives
\* `lookup`: the exporter pointer and the error.
New(collectorURL, lookup) ==
    LET resolved == IF collectorURL = "" THEN envOr(lookup, defaultURL) ELSE collectorURL
        u == urlParse(resolved)
    IN  IF u.err THEN [exporter |-> NilExporter, err |-> ErrInvalidURL]
        ELSE IF u.Scheme = "" \/ u.Host = ""
        THEN [exporter |-> NilExporter, err |-> ErrNoSchemeOrHost]
        ELSE [exporter |-> [isNil |-> FALSE, url |-> resolved, stopped |-> FALSE],
              err |-> Nil]

\* ------------------------------------------------- the functions on their own
\* A call of one function: its name, its argument, and its result once it
\* has returned.
PureCall(fn, in) == [fn |-> fn, in |-> in, done |-> FALSE, out |-> <<>>]

PureReturn(out) ==
    /\ ~pure.done
    /\ pure' = [fn |-> pure.fn, in |-> pure.in, done |-> TRUE, out |-> out]
    /\ UNCHANGED exporterVars

PureInit ==
    /\ ExporterIdle
    /\ \/ \E collectorURL \in RawURLs, lookup \in Environments :
              pure = PureCall("New", [collectorURL |-> collectorURL, lookup |-> lookup])
       \/ \E b \in ConvBatches : pure = PureCall("convertSpansToHttp", b)
       \/ \E b \in ConvBatches : pure = PureCall("jsonMarshal", b)
       \/ \E a \in AttrSeqs : pure = PureCall("attributesToMap", a)

ApplyNew ==
    /\ pure.fn = "New"
    /\ PureReturn(New(pure.in.collectorURL, pure.in.lookup))

ApplyConvert ==
    /\ pure.fn = "convertSpansToHttp"
    /\ PureReturn(convertSpansToHttp(pure.in))

\* exporter.go:114-115: the batch converted and handed to json.Marshal.
ApplyMarshal ==
    /\ pure.fn = "jsonMarshal"
    /\ PureReturn(jsonMarshal(convertSpansToHttp(pure.in)))

ApplyAttributesToMap ==
    /\ pure.fn = "attributesToMap"
    /\ PureReturn(attributesToMap(pure.in))

PureNext == ApplyNew \/ ApplyConvert \/ ApplyMarshal \/ ApplyAttributesToMap

PureSpec == PureInit /\ [][PureNext]_vars

\* ---------------------------------------------------------------- ExportSpans
CallExportSpans(w) ==
    \E batch \in Batches, c \in ExportContexts :
        /\ Begin(w, "ExportSpans", c)
        /\ spans' = [spans EXCEPT ![w] = batch]
        /\ Goto(w, "E_RLock")

\* exporter.go:101  e.stoppedMu.RLock(): taken at once when no writer has
\* called Lock, otherwise the reader queues behind the writer.
ExportRLock(w) ==
    /\ pc[w] = "E_RLock"
    /\ IF rwWriter = NoWorker
       THEN /\ rwReaders' = rwReaders \cup {w}
            /\ Goto(w, "E_Read")
            /\ UNCHANGED rwWaiting
       ELSE /\ rwWaiting' = rwWaiting \cup {w}
            /\ Goto(w, "E_RWait")
            /\ UNCHANGED rwReaders
    /\ UNCHANGED <<stopped, rwWriter, callVars, ctx, stoppedLocal, status, ret,
                   requests, marshals, shutdownDone>>

\* A reader that queued in RLock resumes once Unlock has admitted it.
ExportRLockResume(w) ==
    /\ pc[w] = "E_RWait"
    /\ w \in rwReaders
    /\ Goto(w, "E_Read")
    /\ UNCHANGED <<stopped, lockVars, callVars, ctx, stoppedLocal, status, ret,
                   requests, marshals, shutdownDone>>

\* exporter.go:102  stopped := e.stopped
ExportRead(w) ==
    /\ pc[w] = "E_Read"
    /\ stoppedLocal' = [stoppedLocal EXCEPT ![w] = stopped]
    /\ Goto(w, "E_RUnlock")
    /\ UNCHANGED <<stopped, lockVars, callVars, ctx, status, ret,
                   requests, marshals, shutdownDone>>

\* ExportRUnlock that forgets to release the read lock.
ExportRUnlockForgets(w) ==
    /\ pc[w] = "E_RUnlock"
    /\ Goto(w, "E_Check")
    /\ UNCHANGED <<stopped, lockVars, callVars, ctx, stoppedLocal,
                   status, ret, requests, marshals, shutdownDone>>

\* exporter.go:103  e.stoppedMu.RUnlock()
ExportRUnlock(w) ==
    /\ pc[w] = "E_RUnlock"
    /\ rwReaders' = rwReaders \ {w}
    /\ Goto(w, "E_Check")
    /\ UNCHANGED <<stopped, rwWriter, rwWaiting, callVars, ctx, stoppedLocal,
                   status, ret, requests, marshals, shutdownDone>>

\* ExportCheck without its first test: a stopped exporter goes on to export.
ExportCheckIgnoresStop(w) ==
    /\ pc[w] = "E_Check"
    /\ IF Len(spans[w]) = 0 THEN Return(w, Nil)
       ELSE Goto(w, "E_Marshal") /\ UNCHANGED ret
    /\ UNCHANGED <<stopped, lockVars, callVars, ctx, stoppedLocal, status,
                   requests, marshals, shutdownDone>>

\* ExportCheck without its second test: an empty batch is serialized and sent.
ExportCheckSendsEmpty(w) ==
    /\ pc[w] = "E_Check"
    /\ IF stoppedLocal[w] THEN Return(w, Nil)
       ELSE Goto(w, "E_Marshal") /\ UNCHANGED ret
    /\ UNCHANGED <<stopped, lockVars, callVars, ctx, stoppedLocal, status,
                   requests, marshals, shutdownDone>>

\* ExportCheck that looks at the context before anything else.
ExportCheckHonorsCtx(w) ==
    /\ pc[w] = "E_Check"
    /\ IF ctx[w] \in CtxFired THEN Return(w, CtxErr(ctx[w]))
       ELSE IF stoppedLocal[w] THEN Return(w, Nil)
       ELSE IF Len(spans[w]) = 0 THEN Return(w, Nil)
       ELSE Goto(w, "E_Marshal") /\ UNCHANGED ret
    /\ UNCHANGED <<stopped, lockVars, callVars, ctx, stoppedLocal, status,
                   requests, marshals, shutdownDone>>

\* exporter.go:104-112  the stopped check, then the empty-batch check.
ExportCheck(w) ==
    /\ pc[w] = "E_Check"
    /\ IF stoppedLocal[w] THEN Return(w, Nil)
       ELSE IF Len(spans[w]) = 0 THEN Return(w, Nil)
       ELSE Goto(w, "E_Marshal") /\ UNCHANGED ret
    /\ UNCHANGED <<stopped, lockVars, callVars, ctx, stoppedLocal, status,
                   requests, marshals, shutdownDone>>

\* exporter.go:114-123  convert, serialize, and the two error returns.
ExportMarshal(w) ==
    /\ pc[w] = "E_Marshal"
    /\ marshals' = [marshals EXCEPT ![w] = @ + 1]
    /\ LET m == serialized[spans[w]]
       IN  IF m.err THEN Return(w, ErrSerialize)
           ELSE IF m.body.isNil THEN Return(w, ErrEmptyBody)
           ELSE Goto(w, "E_NewRequest") /\ UNCHANGED ret
    /\ UNCHANGED <<stopped, lockVars, callVars, ctx, stoppedLocal, status,
                   requests, shutdownDone>>

\* exporter.go:126-130  http.NewRequestWithContext fails for a nil context
\* (the URL was parsed by New, the method is a constant).
ExportNewRequest(w) ==
    /\ pc[w] = "E_NewRequest"
    /\ IF ctx[w] = CtxNil THEN Return(w, ErrCreateRequest)
       ELSE Goto(w, "E_Do") /\ UNCHANGED ret
    /\ UNCHANGED <<stopped, lockVars, callVars, ctx, stoppedLocal, status,
                   requests, marshals, shutdownDone>>

\* The request built with a context of its own, not the caller's.
requestContextBackground(c) == CtxLive

\* exporter.go:126  the context the request carries: the caller's.
requestContext(c) == c

\* ExportDo that looks at the stop flag again and drops the batch when set.
ExportDoChecksStop(w) ==
    /\ pc[w] = "E_Do"
    /\ IF stopped
       THEN Return(w, Nil) /\ UNCHANGED <<requests, sentLate>>
       ELSE /\ requests' = [requests EXCEPT ![w] = @ + 1]
            /\ sentLate' = [sentLate EXCEPT ![w] = shutdownDone]
            /\ IF requestContext(ctx[w]) \in CtxFired
               THEN Return(w, ErrTransport)
               ELSE Goto(w, "E_Wait") /\ UNCHANGED ret
    /\ UNCHANGED <<stopped, lockVars, op, spans, afterShutdown, firedStage, calls,
                   pure, ctx, stoppedLocal, status, marshals, shutdownDone>>

\* exporter.go:131  e.client.Do(req) is entered.  The transport looks at the
\* request's context before it sends anything: for a context that has fired
\* Do returns the error at once, otherwise the request is in flight.
ExportDo(w) ==
    /\ pc[w] = "E_Do"
    /\ requests' = [requests EXCEPT ![w] = @ + 1]
    /\ sentLate' = [sentLate EXCEPT ![w] = shutdownDone]
    /\ IF requestContext(ctx[w]) \in CtxFired
       THEN Return(w, ErrTransport)
       ELSE Goto(w, "E_Wait") /\ UNCHANGED ret
    /\ UNCHANGED <<stopped, lockVars, op, spans, afterShutdown, firedStage, calls,
                   pure, ctx, stoppedLocal, status, marshals, shutdownDone>>

\* ExportDoFails with a retry: a failed request is issued again.
ExportDoRetries(w) ==
    /\ pc[w] = "E_Wait"
    /\ Goto(w, "E_Do")
    /\ UNCHANGED <<stopped, lockVars, callVars, ctx, stoppedLocal, status, ret,
                   requests, marshals, shutdownDone>>

\* ExportDoFails that also closes the gate after a transport failure.
ExportDoFailsStops(w) ==
    /\ pc[w] = "E_Wait"
    /\ Return(w, ErrTransport)
    /\ stopped' = TRUE
    /\ UNCHANGED <<lockVars, callVars, ctx, stoppedLocal, status,
                   requests, marshals, shutdownDone>>

\* ExportDoFails that logs the transport error and reports success.
ExportDoFailsSilently(w) ==
    /\ pc[w] = "E_Wait"
    /\ Return(w, Nil)
    /\ UNCHANGED <<stopped, lockVars, callVars, ctx, stoppedLocal, status,
                   requests, marshals, shutdownDone>>

\* exporter.go:131-134  client.Do returns an error (connection failure, or
\* the context fired while the request was in flight).
ExportDoFails(w) ==
    /\ pc[w] = "E_Wait"
    /\ Return(w, ErrTransport)
    /\ UNCHANGED <<stopped, lockVars, callVars, ctx, stoppedLocal, status,
                   requests, marshals, shutdownDone>>

\* exporter.go:131  client.Do returns a response.  A context that fires while
\* the request is in flight races with the arriving response: Do returns
\* either (this action or ExportDoFails).
ExportDoResponds(w) ==
    /\ pc[w] = "E_Wait"
    /\ \E code \in StatusCodes : status' = [status EXCEPT ![w] = code]
    /\ Goto(w, "E_Body")
    /\ UNCHANGED <<stopped, lockVars, callVars, ctx, stoppedLocal, ret,
                   requests, marshals, shutdownDone>>

\* ExportReadBody that looks at the status first and does not drain the body
\* of a 2xx response.
ExportReadBodySkips2xx(w) ==
    /\ pc[w] = "E_Body"
    /\ IF status[w] \in 200..299 THEN Return(w, Nil)
       ELSE \E readErr \in BOOLEAN :
               IF readErr THEN Return(w, ErrReadBody)
               ELSE Goto(w, "E_Status") /\ UNCHANGED ret
    /\ UNCHANGED <<stopped, lockVars, callVars, ctx, stoppedLocal, status,
                   requests, marshals, shutdownDone>>

\* exporter.go:137-140  io.Copy(ioutil.Discard, resp.Body): the read fails or
\* reaches the end of the body.
ExportReadBody(w) ==
    /\ pc[w] = "E_Body"
    /\ \E readErr \in BOOLEAN :
          IF readErr THEN Return(w, ErrReadBody)
          ELSE Goto(w, "E_Status") /\ UNCHANGED ret
    /\ UNCHANGED <<stopped, lockVars, callVars, ctx, stoppedLocal, status,
                   requests, marshals, shutdownDone>>

\* exporter.go:142  the condition guarding the status error, as written.
statusRejected(code) == code < 200 /\ code > 300

\* exporter.go:142-147  status classification and the final return.
ExportStatus(w) ==
    /\ pc[w] = "E_Status"
    /\ IF statusRejected(status[w]) THEN Return(w, ErrStatus) ELSE Return(w, Nil)
    /\ UNCHANGED <<stopped, lockVars, callVars, ctx, stoppedLocal, status,
                   requests, marshals, shutdownDone>>

\* ------------------------------------------------------------------ Shutdown
CallShutdown(w) ==
    \E c \in ShutdownContexts :
        /\ Begin(w, "Shutdown", c)
        /\ Goto(w, "S_Lock")
        /\ UNCHANGED spans

\* exporter.go:152  e.stoppedMu.Lock(): one writer at a time; it holds back
\* new readers from here on and proceeds when no reader holds the lock.
ShutdownLock(w) ==
    /\ pc[w] = "S_Lock"
    /\ rwWriter = NoWorker
    /\ rwWriter' = w
    /\ IF rwReaders = {} THEN Goto(w, "S_Write") ELSE Goto(w, "S_LockWait")
    /\ UNCHANGED <<stopped, rwReaders, rwWaiting, callVars, ctx, stoppedLocal,
                   status, ret, requests, marshals, shutdownDone>>

\* The writer resumes when the last reader has left.
ShutdownLockResume(w) ==
    /\ pc[w] = "S_LockWait"
    /\ rwReaders = {}
    /\ Goto(w, "S_Write")
    /\ UNCHANGED <<stopped, lockVars, callVars, ctx, stoppedLocal, status, ret,
                   requests, marshals, shutdownDone>>

\* ShutdownWrite that flips the flag instead of setting it.
ShutdownWriteToggles(w) ==
    /\ pc[w] = "S_Write"
    /\ stopped' = ~stopped
    /\ Goto(w, "S_Unlock")
    /\ UNCHANGED <<lockVars, callVars, ctx, stoppedLocal, status, ret,
                   requests, marshals, shutdownDone>>

\* ShutdownWrite in a Shutdown that looks at the context first and leaves the
\* flag alone when it has fired.
ShutdownWriteUnlessFired(w) ==
    /\ pc[w] = "S_Write"
    /\ stopped' = (stopped \/ ctx[w] \notin CtxFired)
    /\ Goto(w, "S_Unlock")
    /\ UNCHANGED <<lockVars, callVars, ctx, stoppedLocal, status, ret,
                   requests, marshals, shutdownDone>>

\* exporter.go:153  e.stopped = true
ShutdownWrite(w) ==
    /\ pc[w] = "S_Write"
    /\ stopped' = TRUE
    /\ Goto(w, "S_Unlock")
    /\ UNCHANGED <<lockVars, callVars, ctx, stoppedLocal, status, ret,
                   requests, marshals, shutdownDone>>

\* exporter.go:154  e.stoppedMu.Unlock(): the queued readers are admitted.
ShutdownUnlock(w) ==
    /\ pc[w] = "S_Unlock"
    /\ rwWriter' = NoWorker
    /\ rwReaders' = rwWaiting
    /\ rwWaiting' = {}
    /\ Goto(w, "S_Select")
    /\ UNCHANGED <<stopped, callVars, ctx, stoppedLocal, status, ret,
                   requests, marshals, shutdownDone>>

\* shutdownResult that swallows the context's error.
shutdownResultIgnoresCtx(c) == Nil

\* exporter.go:156-161  the select on ctx.Done() and the return value.
shutdownResult(c) == IF c \in CtxFired THEN CtxErr(c) ELSE Nil

\* ShutdownSelect that reports a repeated Shutdown as an error.
ShutdownSelectRejectsRepeat(w) ==
    /\ pc[w] = "S_Select"
    /\ Return(w, IF afterShutdown[w] THEN "exporter already stopped"
                 ELSE shutdownResult(ctx[w]))
    /\ shutdownDone' = TRUE
    /\ UNCHANGED <<stopped, lockVars, callVars, ctx, stoppedLocal, status,
                   requests, marshals>>

\* exporter.go:156-161
ShutdownSelect(w) ==
    /\ pc[w] = "S_Select"
    /\ Return(w, shutdownResult(ctx[w]))
    /\ shutdownDone' = TRUE
    /\ UNCHANGED <<stopped, lockVars, callVars, ctx, stoppedLocal, status,
                   requests, marshals>>

\* ------------------------------------------------------------- environment
\* The caller cancels the context of a call in progress, or its deadline
\* passes.
InCall(w) == pc[w] \notin {"idle", "done"}

\* The part of a call the context fired in: before client.Do is entered (at
\* call time included), or between then and the end of the body read.
stageOf(label) == IF label \in {"E_Wait", "E_Body"} THEN "inFlight" ELSE "early"

\* The context is followed for as long as the call can still consult it: up
\* to the end of the body read in ExportSpans, up to the select in Shutdown.
CtxFires(w) ==
    /\ InCall(w)
    /\ pc[w] # "E_Status"
    /\ ctx[w] = CtxLive
    /\ \E c \in (IF op[w] = "Shutdown" THEN CtxFired ELSE {"canceled"}) :
          ctx' = [ctx EXCEPT ![w] = c]
    /\ firedStage' = [firedStage EXCEPT ![w] = stageOf(pc[w])]
    /\ UNCHANGED <<stopped, lockVars, pc, op, spans, afterShutdown, sentLate, calls,
                   pure, stoppedLocal, status, ret, requests, marshals, shutdownDone>>

ExportStep(w) ==
    \/ ExportRLock(w)
    \/ ExportRLockResume(w)
    \/ ExportRead(w)
    \/ ExportRUnlock(w)
    \/ ExportCheck(w)
    \/ ExportMarshal(w)
    \/ ExportNewRequest(w)
    \/ ExportDo(w)
    \/ ExportDoFails(w)
    \/ ExportDoResponds(w)
    \/ ExportReadBody(w)
    \/ ExportStatus(w)

ShutdownStep(w) ==
    \/ ShutdownLock(w)
    \/ ShutdownLockResume(w)
    \/ ShutdownWrite(w)
    \/ ShutdownUnlock(w)
    \/ ShutdownSelect(w)

Next ==
    \E w \in Workers :
        \/ CallExportSpans(w)
        \/ CallShutdown(w)
        \/ ExportStep(w)
        \/ ShutdownStep(w)
        \/ CtxFires(w)

Spec == Init /\ [][Next]_vars

\* ------------------------------------------------------------------ helpers
Exporting(w) == op[w] = "ExportSpans"
ShuttingDown(w) == op[w] = "Shutdown"
Returned(w) == pc[w] = "done"

\* The steps of ExportSpans that follow the gate check and the empty-batch
\* check: serialization, request construction, the round trip, the response.
AfterGate == {"E_Marshal", "E_NewRequest", "E_Do", "E_Wait", "E_Body", "E_Status"}

\* The call's batch serializes and its request can be built.
Sendable(w) ==
    /\ Len(spans[w]) > 0
    /\ ~serialized[spans[w]].err
    /\ ctx[w] # CtxNil

\* ------------------------------------------------------------------- claims

\* C1: an ExportSpans call begun after a Shutdown call has returned issues no
\* HTTP request, serializes nothing and returns nil, whatever its batch.
C1_NoExportAfterShutdown ==
    \A w \in Workers :
        (Exporting(w) /\ afterShutdown[w]) =>
            /\ requests[w] = 0
            /\ marshals[w] = 0
            /\ pc[w] \notin AfterGate
            /\ Returned(w) => ret[w] = Nil

\* C1 witness: such a call, with a non-empty batch, has returned.
C1_Witness ==
    \E w \in Workers :
        /\ Exporting(w) /\ afterShutdown[w] /\ Returned(w)
        /\ Len(spans[w]) > 0
        /\ ret[w] = Nil

\* C2: a call whose response body was read without error returns nil exactly
\* when the status is in [200, 300), and the status error otherwise.
C2_StatusDecidesResult ==
    \A w \in Workers :
        (Exporting(w) /\ Returned(w) /\ status[w] # NoStatus /\ ret[w] # ErrReadBody) =>
            /\ ret[w] = Nil <=> status[w] \in 200..299
            /\ status[w] \notin 200..299 => ret[w] = ErrStatus

\* C3: one ExportSpans call issues at most one HTTP request, and exactly one
\* when it read the gate as Active, its batch is non-empty and serialization
\* and request construction succeeded; no outcome leads to a second request.
C3_OneRequestPerCall ==
    \A w \in Workers :
        /\ requests[w] <= 1
        /\ (Exporting(w) /\ pc[w] \in {"E_Wait", "E_Body", "E_Status"}) => requests[w] = 1
        /\ (Exporting(w) /\ Returned(w) /\ ~stoppedLocal[w] /\ Sendable(w)) => requests[w] = 1
        /\ (Exporting(w) /\ Returned(w) /\ ret[w] \in {ErrTransport, ErrReadBody})
               => requests[w] = 1

\* C3 witness: a call has returned the transport error, having made its one
\* request.
C3_Witness ==
    \E w \in Workers :
        /\ Exporting(w) /\ Returned(w)
        /\ ret[w] = ErrTransport
        /\ requests[w] = 1

\* C4: ExportSpans with an empty batch and an Active gate returns nil and
\* issues no HTTP request.
C4_EmptyBatchIsNoOp ==
    \A w \in Workers :
        (Exporting(w) /\ Len(spans[w]) = 0 /\ ~stoppedLocal[w]) =>
            /\ requests[w] = 0
            /\ pc[w] \notin AfterGate
            /\ Returned(w) => ret[w] = Nil

\* C4 witness: an empty-batch call that read the gate as Active has returned.
C4_Witness ==
    \E w \in Workers :
        /\ Exporting(w) /\ Returned(w)
        /\ Len(spans[w]) = 0
        /\ ~stoppedLocal[w] /\ ~stopped
        /\ ret[w] = Nil

\* C5: a Shutdown call made after a Shutdown call has returned leaves the
\* exporter as the first call left it (the gate stays Stopped at every point
\* during and after the call) and, its signal unfired, returns nil.
C5_ShutdownIdempotent ==
    \A w \in Workers :
        (ShuttingDown(w) /\ afterShutdown[w]) =>
            /\ stopped
            /\ (Returned(w) /\ ctx[w] = CtxLive) => ret[w] = Nil

\* C5 witness: a second Shutdown call with an unfired signal has returned.
C5_Witness ==
    \E w \in Workers :
        /\ ShuttingDown(w) /\ afterShutdown[w] /\ Returned(w)
        /\ ctx[w] = CtxLive
        /\ ret[w] = Nil

\* C6: the gate starts Active; the flag changes only in Shutdown's write,
\* only from false to true, and once true it is never false again.
C6_GateOneWay ==
    /\ ~stopped
    /\ [][ /\ stopped => stopped'
           /\ stopped' # stopped =>
                \E w \in Workers : /\ ShuttingDown(w)
                                   /\ pc[w] = "S_Write"
                                   /\ pc'[w] = "S_Unlock" ]_vars

\* C6 witness: a repeated Shutdown has written the flag again: the gate is
\* still Stopped.
C6_Witness ==
    /\ stopped
    /\ \E w \in Workers :
          ShuttingDown(w) /\ afterShutdown[w] /\ pc[w] = "S_Unlock"

C8_ExportKeepsGate ==
    [][ \A w \in Workers :
            (pc'[w] # pc[w] /\ op'[w] = "ExportSpans") => stopped' = stopped ]_vars

\* C8 witness: two ExportSpans calls have failed in different ways and the
\* gate is still Active.
C8_Witness ==
    /\ ~stopped
    /\ \E w, v \in Workers :
          /\ Exporting(w) /\ Returned(w) /\ ret[w] = ErrTransport
          /\ Exporting(v) /\ Returned(v) /\ ret[v] = ErrSerialize

\* C9: an ExportSpans call that read the gate as Active is neither cancelled
\* nor held up by Shutdown: past the gate it can always take its next step
\* whatever the flag has become, and it issues its request and returns its
\* normal result; Shutdown waits for the lock alone, never for a call that
\* has left the gate.
C9_InFlightExportUnaffected ==
    \A w \in Workers :
        /\ (Exporting(w) /\ pc[w] \in AfterGate \cup {"E_Check"}) => ENABLED ExportStep(w)
        /\ (Exporting(w) /\ Returned(w) /\ ~stoppedLocal[w] /\ Sendable(w)) =>
               /\ requests[w] = 1
               /\ ret[w] \in {Nil, ErrTransport, ErrReadBody, ErrStatus}
        /\ (ShuttingDown(w) /\ InCall(w) /\ rwReaders = {} /\ rwWriter \in {w, NoWorker})
               => ENABLED ShutdownStep(w)

\* C9 witness: a call that read the gate as Active before any Shutdown had
\* returned entered client.Do after a Shutdown had returned, and got its
\* response.
C9_Witness ==
    \E w \in Workers :
        /\ Exporting(w) /\ Returned(w)
        /\ ~afterShutdown[w] /\ ~stoppedLocal[w] /\ sentLate[w]
        /\ stopped
        /\ requests[w] = 1
        /\ ret[w] = Nil

\* ------------------------------------------------------------------ fairness
\* The steps of ExportSpans inside and around its critical section.
GateStep(w) ==
    \/ ExportRLock(w)
    \/ ExportRLockResume(w)
    \/ ExportRead(w)
    \/ ExportRUnlock(w)

\* A worker's steps that take, hold or release the lock, and Shutdown's
\* return.
LockStep(w) == GateStep(w) \/ ShutdownStep(w)

\* The Go scheduler runs every runnable goroutine: a worker in Shutdown or in
\* the gate check that can step does step.  Nothing is assumed of the
\* transport: a request may stay in flight for ever.
FairSpec ==
    /\ Spec
    /\ \A w \in Workers : WF_vars(LockStep(w))

GatePcs == {"E_RLock", "E_RWait", "E_Read", "E_RUnlock"}
ShutdownPcs == {"S_Lock", "S_LockWait", "S_Write", "S_Unlock", "S_Select"}

\* The lock is held only around the read or the write of the flag.
LockHeldOnlyAtFlag ==
    /\ \A w \in rwReaders : pc[w] \in {"E_RWait", "E_Read", "E_RUnlock"}
    /\ rwWriter # NoWorker => pc[rwWriter] \in {"S_LockWait", "S_Write", "S_Unlock"}
    /\ \A w \in rwWaiting : pc[w] = "E_RWait" /\ rwWriter # NoWorker

\* Some worker inside the gate check or Shutdown can step.
NoLockDeadlock ==
    (\E w \in Workers : pc[w] \in GatePcs \cup ShutdownPcs) =>
        \E w \in Workers : ENABLED LockStep(w)

\* C10: the lock is held only around the single read or write of the flag,
\* never across serialization or the round trip; no state is a deadlock of
\* the lock; every Shutdown call returns and every gate check completes,
\* whatever the other calls do, requests blocked on the transport included.
C10_GateNeverBlocks ==
    /\ [](LockHeldOnlyAtFlag /\ NoLockDeadlock)
    /\ \A w \in Workers :
          (pc[w] \in ShutdownPcs \cup GatePcs) ~> (pc[w] \in {"done", "E_Check"})

\* C10 witness: an ExportSpans call is queued in RLock behind a Shutdown that
\* holds the lock.
C10_Witness ==
    \E w, v \in Workers :
        /\ pc[w] = "S_Write"
        /\ pc[v] = "E_RWait"
        /\ v \in rwWaiting

\* C11: every failure of the export protocol ends the call at its step with
\* a non-nil error: a serialization or request-construction failure returns
\* before any request, a round trip that gave no response returns the
\* transport error and never reaches status classification or success, and
\* a failed body read returns its error.
C11_FailuresEndTheCall ==
    /\ [](\A w \in Workers :
            (Exporting(w) /\ Returned(w) /\ ~stoppedLocal[w] /\ Len(spans[w]) > 0) =>
                LET m == serialized[spans[w]]
                IN  /\ m.err => (ret[w] = ErrSerialize /\ requests[w] = 0)
                    /\ (~m.err /\ ctx[w] = CtxNil) =>
                           (ret[w] = ErrCreateRequest /\ requests[w] = 0)
                    /\ (requests[w] = 1 /\ status[w] = NoStatus) => ret[w] = ErrTransport
                    /\ ret[w] \in {ErrSerialize, ErrEmptyBody, ErrCreateRequest, ErrTransport}
                           => status[w] = NoStatus
                    /\ ret[w] = Nil => status[w] # NoStatus)
    /\ [][\A w \in Workers :
            (Exporting(w) /\ pc[w] \in AfterGate /\ pc'[w] = "done" /\ pc[w] # "E_Status")
                => ret'[w] \notin {Nil, NoResult}]_vars

\* C11 witness: one call has returned the serialization error and another the
\* transport error.
C11_Witness ==
    \E w, v \in Workers :
        /\ Exporting(w) /\ Returned(w) /\ ret[w] = ErrSerialize /\ requests[w] = 0
        /\ Exporting(v) /\ Returned(v) /\ ret[v] = ErrTransport /\ status[v] = NoStatus

\* C12: the status is classified only after the body has been read to its
\* end, and a failed body read returns the read error whatever the status.
C12_BodyReadBeforeStatus ==
    [][\A w \in Workers :
          /\ (pc'[w] = "E_Status" /\ pc[w] # "E_Status") => pc[w] = "E_Body"
          /\ (pc[w] = "E_Body" /\ pc'[w] = "done") => ret'[w] = ErrReadBody
          /\ (Exporting(w) /\ status[w] # NoStatus /\ pc'[w] = "done" /\ pc[w] # "done"
                /\ ret'[w] # ErrReadBody) => pc[w] = "E_Status"]_vars

\* C12 witness: a call whose response was 200 has returned the read error.
C12_Witness ==
    \E w \in Workers :
        /\ Exporting(w) /\ Returned(w)
        /\ status[w] = 200
        /\ ret[w] = ErrReadBody

\* The context fired while the request was not yet complete: at call time,
\* before client.Do, or before the response body had been read to its end.
FiredBeforeCompletion(w) == firedStage[w] \in {"early", "inFlight"}

\* The context had fired by the time client.Do was entered.
FiredBeforeDo(w) == firedStage[w] = "early"

C18_StoppedAfterAnyShutdown ==
    /\ shutdownDone => stopped
    /\ \A w \in Workers :
          /\ (ShuttingDown(w) /\ pc[w] \in {"S_Unlock", "S_Select", "done"}) => stopped
          /\ (Exporting(w) /\ afterShutdown[w]) =>
                 /\ requests[w] = 0
                 /\ Returned(w) => ret[w] = Nil

\* C18 witness: the only Shutdown call made returned context.Canceled, its
\* signal fired from the start, and a later ExportSpans call with a non-empty
\* batch returned nil without a request.
C18_Witness ==
    /\ calls = 2
    /\ stopped
    /\ \E w, v \in Workers :
          /\ ShuttingDown(w) /\ Returned(w)
          /\ firedStage[w] = "early" /\ ret[w] = "context.Canceled"
          /\ Exporting(v) /\ afterShutdown[v] /\ Returned(v)
          /\ Len(spans[v]) > 0 /\ ret[v] = Nil /\ requests[v] = 0

\* C19: the gate check and the empty-batch check come before any look at the
\* context: a call whose signal had fired before it reached them returns nil,
\* not the context's error, when the gate was read as Stopped (even with a
\* non-empty batch) and when the batch is empty.
C19_GateCheckedBeforeContext ==
    \A w \in Workers :
        (Exporting(w) /\ Returned(w) /\ firedStage[w] = "early"
            /\ (stoppedLocal[w] \/ Len(spans[w]) = 0)) =>
            /\ ret[w] = Nil
            /\ requests[w] = 0
            /\ marshals[w] = 0

\* C19 witness: with their signals fired, one call with a non-empty batch
\* returned nil on a Stopped gate and one call with an empty batch returned
\* nil on an Active gate.
C19_Witness ==
    \E w, v \in Workers :
        /\ Exporting(w) /\ Returned(w) /\ firedStage[w] = "early"
        /\ stoppedLocal[w] /\ Len(spans[w]) > 0 /\ ret[w] = Nil
        /\ Exporting(v) /\ Returned(v) /\ firedStage[v] = "early"
        /\ ~stoppedLocal[v] /\ Len(spans[v]) = 0 /\ ret[v] = Nil

\* ----------------------------------------------------- conversion and wiring
\* The wire object of the i-th span of a serialized batch: member name to
\* JSON value.
wireObject(i) == pure.out.body.json.v[i].v

Serialized == pure.fn = "jsonMarshal" /\ pure.done /\ ~pure.out.err

\* The members that carry no omitempty option.
PlainMembers ==
    { "traceId", "spanId", "parentSpanId", "name", "startTime", "endTime", "attrs",
      "droppedAttributesCount", "droppedLinkCount", "statusCode",
      "droppedMessageEventCount", "spanKind", "statusMessage",
      "instrumentationLibraryName", "instrumentationLibraryVersion" }

\* C14: convertSpansToHttp returns a non-nil sequence as long as its input
\* whose i-th record is the record built from the i-th span; an empty input
\* gives an empty sequence; the call leaves its input as it was.
C14_ConvertOneToOne ==
    /\ []((pure.fn = "convertSpansToHttp" /\ pure.done) =>
            /\ ~pure.out.isNil
            /\ Len(pure.out.elems) = Len(pure.in)
            /\ \A i \in 1..Len(pure.in) :
                   /\ pure.out.elems[i] = httpSpan(pure.in[i])
                   /\ pure.out.elems[i].SpanID = idString(pure.in[i].spanID)
                   /\ pure.out.elems[i].Name = pure.in[i].name
            /\ (pure.in = <<>> => pure.out.elems = <<>>))
    /\ [][pure.fn = "convertSpansToHttp" => pure'.in = pure.in]_vars

C14_Witness ==
    /\ pure.fn = "convertSpansToHttp"
    /\ pure.done
    /\ Len(pure.in) = 2
    /\ pure.in[1].spanID # pure.in[2].spanID
    /\ Len(pure.out.elems) = 2

\* C15 as stated: links and messageEvents are on the wire exactly when the
\* span has some, and every other member, resource included, is always there.
C15_OnlyLinksAndEventsOmitted ==
    Serialized =>
        \A i \in 1..Len(pure.in) :
            /\ ("links" \in DOMAIN wireObject(i)) <=> (pure.in[i].links # <<>>)
            /\ ("messageEvents" \in DOMAIN wireObject(i)) <=> (pure.in[i].events # <<>>)
            /\ PlainMembers \cup {"resource"} \subseteq DOMAIN wireObject(i)

\* C15, amended: links, messageEvents and resource are on the wire exactly
\* when the span has links, events and resource attributes; every other
\* member is always there, attrs as an empty object when the span has no
\* attributes.
C15_OmittedWhenEmpty ==
    Serialized =>
        \A i \in 1..Len(pure.in) :
            /\ ("links" \in DOMAIN wireObject(i)) <=> (pure.in[i].links # <<>>)
            /\ ("messageEvents" \in DOMAIN wireObject(i)) <=> (pure.in[i].events # <<>>)
            /\ ("resource" \in DOMAIN wireObject(i)) <=> (pure.in[i].resource # <<>>)
            /\ PlainMembers \subseteq DOMAIN wireObject(i)
            /\ DOMAIN wireObject(i) \subseteq
                   PlainMembers \cup {"links", "messageEvents", "resource"}
            /\ pure.in[i].attributes = <<>> =>
                   (wireObject(i)["attrs"].t = "object" /\ DOMAIN wireObject(i)["attrs"].v = {})

C15_Witness ==
    /\ Serialized
    /\ \E i \in 1..Len(pure.in) :
           /\ pure.in[i].resource = <<>>
           /\ pure.in[i].attributes = <<>>
           /\ "resource" \notin DOMAIN wireObject(i)
    /\ \E i \in 1..Len(pure.in) :
           /\ pure.in[i].resource # <<>>
           /\ pure.in[i].links # <<>>
           /\ "links" \in DOMAIN wireObject(i)

\* ------------------------------------------------------------ construction
\* The URL that New's argument and the environment resolve to: the argument
\* if it is not empty, else the variable if it is set and not empty, else the
\* default.
ResolvedURL ==
    IF pure.in.collectorURL # "" THEN pure.in.collectorURL
    ELSE IF pure.in.lookup.ok /\ pure.in.lookup.v # "" THEN pure.in.lookup.v
    ELSE "http://localhost:4000/"

LacksSchemeOrHost == urlSyntax(ResolvedURL).scheme = "" \/ urlSyntax(ResolvedURL).host = ""

NewFailed == pure.out.err # Nil /\ pure.out.exporter.isNil

NewReturnedActive ==
    /\ pure.out.err = Nil
    /\ ~pure.out.exporter.isNil
    /\ pure.out.exporter.url = ResolvedURL
    /\ ~pure.out.exporter.stopped

\* C16 as stated: New fails, returning no exporter, whenever the resolved URL
\* lacks a scheme or a host, and otherwise returns an Active exporter holding
\* the resolved URL.
C16_FailsOnlyWithoutSchemeOrHost ==
    (pure.fn = "New" /\ pure.done) =>
        IF LacksSchemeOrHost THEN NewFailed ELSE NewReturnedActive

\* C16, amended: the URL is resolved argument, then environment variable,
\* then default; New fails, returning no exporter, whenever the resolved URL
\* cannot be parsed or lacks a scheme or a host, and otherwise returns an
\* Active exporter holding the resolved URL.
C16_NewResolvesAndValidates ==
    (pure.fn = "New" /\ pure.done) =>
        IF urlSyntax(ResolvedURL).malformed \/ LacksSchemeOrHost
        THEN NewFailed
        ELSE NewReturnedActive

C16_Witness ==
    /\ pure.fn = "New"
    /\ pure.done
    /\ pure.in.collectorURL = ""
    /\ pure.in.lookup = [ok |-> TRUE, v |-> "http://collector:port/"]
    /\ NewFailed

\* ------------------------------------------------------------------- enums
\* C17: in every serialized span record statusCode and spanKind are JSON
\* strings holding the name of the enum value, never numbers.
C17_EnumsAsNames ==
    Serialized =>
        \A i \in 1..Len(pure.in) :
            /\ wireObject(i)["statusCode"].t = "string"
            /\ wireObject(i)["statusCode"].v \in {"Unset", "Ok", "Error"}
            /\ wireObject(i)["spanKind"].t = "string"
            /\ wireObject(i)["spanKind"].v \in
                   {"Unspecified", "Internal", "Server", "Client", "Producer", "Consumer"}

\* ------------------------------------------------------------ attributesToMap
\* Position of the last attribute with key k.
LastIndexOf(attributes, k) ==
    CHOOSE i \in DOMAIN attributes :
        /\ attributes[i].Key = k
        /\ \A j \in DOMAIN attributes : attributes[j].Key = k => j <= i

KeysDistinct(attributes) ==
    \A i, j \in DOMAIN attributes : attributes[i].Key = attributes[j].Key => i = j

\* C20: attributesToMap returns a non-nil map whose keys are exactly the keys
\* of the input, each with the value of its last occurrence; so it has at
\* most as many entries as the input has attributes, and as many only when
\* the keys are distinct; an empty input gives an empty map.
C20_AttributesToMap ==
    (pure.fn = "attributesToMap" /\ pure.done) =>
        /\ ~pure.out.isNil
        /\ DOMAIN pure.out.kv = { pure.in[i].Key : i \in DOMAIN pure.in }
        /\ \A k \in DOMAIN pure.out.kv :
               pure.out.kv[k] = asInterface(pure.in[LastIndexOf(pure.in, k)].Value)
        /\ Cardinality(DOMAIN pure.out.kv) <= Len(pure.in)
        /\ (Cardinality(DOMAIN pure.out.kv) = Len(pure.in)) <=> KeysDistinct(pure.in)
        /\ (pure.in = <<>> => DOMAIN pure.out.kv = {})

C20_Witness ==
    /\ pure.fn = "attributesToMap"
    /\ pure.done
    /\ Len(pure.in) = 2
    /\ pure.in[1].Key = pure.in[2].Key
    /\ pure.in[1].Value # pure.in[2].Value
    /\ Cardinality(DOMAIN pure.out.kv) = 1

====
